---------------------------- MODULE Spec2Model ----------------------------
(***************************************************************************)
(* A model of app.py, the transcript coder: chunk_text, the response       *)
(* parsing of _code_chunk, apply_shading / highlight_quote, the legend     *)
(* append and the _process_document pipeline run by _start_processing.     *)
(*                                                                         *)
(* Text is a sequence of one-character strings.  A run is a record         *)
(* [text, rPr] where rPr is the sequence of the children of the run's      *)
(* w:rPr element; a paragraph is a sequence of runs; a document is a       *)
(* sequence of paragraphs.                                                 *)
(***************************************************************************)
EXTENDS Integers, Sequences, FiniteSets, TLC

VARIABLES
    chunker,        \* one call of chunk_text: its arguments and its result
    parser,         \* one response parsed by _code_chunk
    marker,         \* a document under repeated highlight_quote calls
    input_path,     \* self.input_path: 0 when unset, else an index into Files
    output_path,    \* self.output_path: 0 when unset, else 1
    button,         \* state of self.process_button
    pc,             \* where the worker thread is in _process_document
    document,       \* the Document loaded by the worker
    source,         \* the paragraphs of that document as they were loaded
    chunks,         \* chunk_text(paragraphs)
    ci,             \* index of the chunk the for loop is at
    matches,        \* the matches accumulated so far
    mi,             \* index of the match _apply_highlights is at
    applied,        \* the counter of _apply_highlights
    before,         \* the document as it was when _append_legend was called
    legendAppends,  \* calls of _append_legend in this run
    inflight,       \* calls to the service that have not returned
    submitted,      \* the chunk indices submitted in this run, in order
    failedCall,     \* a call of this run failed or its response did not parse
    destWrites,     \* writes of the destination file in this run
    destination,    \* what this run has written to the destination file
    widgetOps,      \* the widget calls made so far, each with its thread
    error           \* the exception caught in this run

pipeVars == <<input_path, output_path, button, pc, document, source, chunks, ci,
              matches, mi, applied, before, legendAppends, inflight, submitted,
              failedCall, destWrites, destination, widgetOps, error>>

vars == <<chunker, parser, marker, pipeVars>>

\* ------------------------------------------------------------------ bounds
MaxParaLen == 3
MaxParas == 3
MaxBudget == 5
MaxEntries == 2
MaxDocParas == 2
MaxApplications == 2
LongLen == 1750

\* ------------------------------------------------------------- text helpers
None == "None"
NL == "\n"
Whitespace == {" ", "\n", "\t"}

SeqsUpTo(S, n) == UNION {[1..k -> S] : k \in 0..n}

\* str.strip(): the text without its leading and trailing whitespace.
Strip(s) ==
    IF \A i \in 1..Len(s) : s[i] \in Whitespace THEN <<>>
    ELSE LET first == CHOOSE i \in 1..Len(s) :
                          s[i] \notin Whitespace /\ \A j \in 1..(i - 1) : s[j] \in Whitespace
             back == CHOOSE k \in 0..(Len(s) - 1) :
                          s[Len(s) - k] \notin Whitespace
                          /\ \A j \in (Len(s) - k + 1)..Len(s) : s[j] \in Whitespace
         IN SubSeq(s, first, Len(s) - back)

\* "\n".join(buffer)
RECURSIVE Join(_)
Join(buffer) ==
    IF buffer = <<>> THEN <<>>
    ELSE IF Len(buffer) = 1 THEN buffer[1]
    ELSE buffer[1] \o <<NL>> \o Join(Tail(buffer))

\* ------------------------------------------------------------- chunk_text
\* One iteration of the loop over the paragraphs.  st.groups keeps, beside
\* each joined chunk, the buffer it was joined from.
ChunkStepGreedy(st, para, max_chars) ==
    LET flush == st.current + Len(para) + 1 > max_chars + 2 /\ st.buffer # <<>>
        s1 == IF flush
              THEN [chunks |-> Append(st.chunks, Join(st.buffer)),
                    groups |-> Append(st.groups, st.buffer),
                    buffer |-> <<>>, current |-> 0]
              ELSE st
    IN [chunks |-> s1.chunks, groups |-> s1.groups,
        buffer |-> Append(s1.buffer, para),
        current |-> s1.current + Len(para) + 1]

ChunkStep(st, para, max_chars) ==
    LET flush == st.current + Len(para) + 1 > max_chars /\ st.buffer # <<>>
        s1 == IF flush
              THEN [chunks |-> Append(st.chunks, Join(st.buffer)),
                    groups |-> Append(st.groups, st.buffer),
                    buffer |-> <<>>, current |-> 0]
              ELSE st
    IN [chunks |-> s1.chunks, groups |-> s1.groups,
        buffer |-> Append(s1.buffer, para),
        current |-> s1.current + Len(para) + 1]

RECURSIVE ChunkLoop(_, _, _)
ChunkLoop(st, paragraphs, max_chars) ==
    IF paragraphs = <<>> THEN st
    ELSE ChunkLoop(ChunkStep(st, Head(paragraphs), max_chars), Tail(paragraphs), max_chars)

\* The loop and the final flush: [chunks, groups].
ChunkFlushDropsLast(paragraphs, max_chars) ==
    LET st == ChunkLoop([chunks |-> <<>>, groups |-> <<>>, buffer |-> <<>>, current |-> 0],
                        paragraphs, max_chars)
    IN [chunks |-> st.chunks, groups |-> st.groups]

ChunkRun(paragraphs, max_chars) ==
    LET st == ChunkLoop([chunks |-> <<>>, groups |-> <<>>, buffer |-> <<>>, current |-> 0],
                        paragraphs, max_chars)
    IN IF st.buffer # <<>>
       THEN [chunks |-> Append(st.chunks, Join(st.buffer)),
             groups |-> Append(st.groups, st.buffer)]
       ELSE [chunks |-> st.chunks, groups |-> st.groups]

chunk_text(paragraphs, max_chars) == ChunkRun(paragraphs, max_chars).chunks

\* The paragraph texts the orchestrator extracts: non-empty and stripped.  A
\* paragraph's text holds "\n" where the paragraph has a line break.
ParaChars == {"a", NL}
ParaInputs == {s \in SeqsUpTo(ParaChars, MaxParaLen) : s # <<>> /\ Strip(s) = s}
ParagraphLists == SeqsUpTo(ParaInputs, MaxParas)

Idle == [state |-> "unused"]

\* The application after __init__: no path chosen, no thread started.
PipeInit ==
    /\ input_path = 0 /\ output_path = 0 /\ button = "normal" /\ pc = "idle"
    /\ document = <<>> /\ source = <<>> /\ chunks = <<>> /\ ci = 0
    /\ matches = <<>> /\ mi = 0 /\ applied = 0 /\ before = <<>>
    /\ legendAppends = 0 /\ inflight = 0 /\ submitted = <<>>
    /\ failedCall = FALSE /\ destWrites = 0
    /\ destination = [written |-> FALSE, document |-> <<>>]
    /\ widgetOps = {} /\ error = None

ChunkInit ==
    /\ chunker \in {[state |-> "input", paragraphs |-> P, max_chars |-> B,
                      chunks |-> <<>>, groups |-> <<>>] :
                        P \in ParagraphLists, B \in 1..MaxBudget}
    /\ parser = Idle
    /\ marker = Idle
    /\ PipeInit

ChunkText ==
    /\ chunker.state = "input"
    /\ LET r == ChunkRun(chunker.paragraphs, chunker.max_chars)
       IN chunker' = [chunker EXCEPT !.state = "done",
                                     !.chunks = chunk_text(chunker.paragraphs, chunker.max_chars),
                                     !.groups = r.groups]
    /\ UNCHANGED <<parser, marker, pipeVars>>

SpecChunk == ChunkInit /\ [][ChunkText]_vars

RECURSIVE Flatten(_)
Flatten(gs) == IF gs = <<>> THEN <<>> ELSE Head(gs) \o Flatten(Tail(gs))

HasNewline(p) == \E i \in 1..Len(p) : p[i] = NL

ChunkDone == chunker.state = "done"

\* The i-th smallest element of a set of integers.
Nth(S, i) == CHOOSE x \in S : Cardinality({y \in S : y < x}) = i - 1

\* The newline-joined groups of P cut after the positions in cuts.
JoinedGroups(P, cuts) ==
    [i \in 1..(Cardinality(cuts) + 1) |->
        Join(SubSeq(P, Nth({0} \cup cuts, i) + 1, Nth(cuts \cup {Len(P)}, i)))]

\* C2: the chunks are the paragraphs, all of them and in order, cut into
\* consecutive non-empty groups, each group joined by newlines: undoing the
\* joins gives back the paragraph list, nothing dropped, duplicated or
\* split.  The empty list gives no chunk.
C2_ChunksPartitionParagraphs ==
    ChunkDone =>
        LET P == chunker.paragraphs
        IN IF P = <<>> THEN chunker.chunks = <<>>
           ELSE \E cuts \in SUBSET (1..(Len(P) - 1)) :
                   chunker.chunks = JoinedGroups(P, cuts)

C2_Witness ==
    /\ ChunkDone
    /\ Len(chunker.paragraphs) = 3
    /\ HasNewline(chunker.paragraphs[3])
    /\ Len(chunker.chunks) = 2
    /\ chunker.chunks[1] = Join(SubSeq(chunker.paragraphs, 1, 2))
    /\ chunker.chunks[2] = chunker.paragraphs[3]
    /\ chunker.chunks[1] = chunker.chunks[2]

\* C3: every chunk is at most max_chars long unless it is one paragraph
\* that is itself longer than max_chars, and a paragraph longer than
\* max_chars shares its chunk with no other paragraph.
C3_ChunkWithinBudget ==
    ChunkDone =>
        LET r == chunker
            B == chunker.max_chars
        IN /\ Len(r.groups) = Len(r.chunks)
           /\ Flatten(r.groups) = chunker.paragraphs
           /\ \A i \in 1..Len(r.chunks) :
                /\ r.groups[i] # <<>>
                /\ r.chunks[i] = Join(r.groups[i])
                /\ \/ Len(r.chunks[i]) <= B
                   \/ Len(r.groups[i]) = 1 /\ Len(r.groups[i][1]) > B
                /\ \A j \in 1..Len(r.groups[i]) :
                      Len(r.groups[i][j]) > B => Len(r.groups[i]) = 1

C3_Witness ==
    /\ ChunkDone
    /\ Len(chunker.paragraphs) = 3
    /\ Len(chunker.chunks) = 3
    /\ Len(chunker.chunks[2]) > chunker.max_chars
    /\ Len(chunker.chunks[1]) <= chunker.max_chars
    /\ Len(chunker.chunks[3]) <= chunker.max_chars

\* ------------------------------------------------------------ _code_chunk
\* Category metadata, in the dictionary's insertion order.
CATEGORY_DETAILS ==
    << [code |-> "A", title |-> "Background & Context", color |-> "FFF2CC"],
       [code |-> "B", title |-> "Feasibility & Practical Implementation", color |-> "DAEEF3"],
       [code |-> "C", title |-> "Validity & Learning Assurance", color |-> "E2F0D9"],
       [code |-> "D", title |-> "Disciplinary Relevance", color |-> "FCE4D6"],
       [code |-> "E", title |-> "Student Engagement & Observations", color |-> "E4DFEC"],
       [code |-> "F", title |-> "Reflection & Improvement", color |-> "D9E1F2"],
       [code |-> "G", title |-> "Sustainability & Future Use", color |-> "F2F2F2"],
       [code |-> "H", title |-> "Additional Insights", color |-> "D5E8D4"] >>

\* category in CATEGORY_DETAILS, for a category given as text.
InTaxonomy(category) ==
    \E k \in 1..Len(CATEGORY_DETAILS) : category = <<CATEGORY_DETAILS[k].code>>

\* str.upper(), on the letters the model's inputs use.
UpperChar(c) ==
    CASE c = "a" -> "A" [] c = "b" -> "B" [] c = "c" -> "C" [] c = "d" -> "D"
      [] c = "e" -> "E" [] c = "f" -> "F" [] c = "g" -> "G" [] c = "h" -> "H"
      [] c = "x" -> "X" [] c = "y" -> "Y" [] c = "z" -> "Z" [] OTHER -> c
Upper(s) == [i \in 1..Len(s) |-> UpperChar(s[i])]

\* str.lower(), on the letters the model's inputs use.
LowerChar(c) ==
    CASE c = "A" -> "a" [] c = "B" -> "b" [] c = "C" -> "c" [] c = "D" -> "d"
      [] c = "E" -> "e" [] c = "F" -> "f" [] c = "G" -> "g" [] c = "H" -> "h"
      [] c = "X" -> "x" [] c = "Y" -> "y" [] c = "Z" -> "z" [] OTHER -> c
Lower(s) == [i \in 1..Len(s) |-> LowerChar(s[i])]

\* Decoded JSON values: a string, null, a number, or a key that is absent.
JStr(s) == [t |-> "str", v |-> s]
JNull == [t |-> "null", v |-> <<>>]
JNum == [t |-> "num", v |-> <<>>]
JMissing == [t |-> "missing", v |-> <<>>]
JList(l) == [t |-> "list", v |-> l]

QuoteMatch(category, quote) == [category |-> category, quote |-> quote]
Raised(kind, payload) == [error |-> kind, payload |-> payload, matches |-> <<>>]
Returned(ms) == [error |-> None, payload |-> None, matches |-> ms]

\* item.get("category", "").strip().upper(), for a string or an absent key.
NormalizeCategory(category) ==
    Upper(Strip(IF category.t = "missing" THEN <<>> ELSE category.v))

\* The inner loop: for quote in item.get("quotes", []).
RECURSIVE ParseQuotes(_, _, _)
ParseQuotes(category, quotes, acc) ==
    IF quotes = <<>> THEN Returned(acc)
    ELSE LET q == Head(quotes)
         IN IF q.t = "num" THEN Raised("AttributeError", None)
            ELSE LET quote == Strip(IF q.t = "null" THEN <<>> ELSE q.v)
                 IN ParseQuotes(category, Tail(quotes),
                                IF quote # <<>> THEN Append(acc, QuoteMatch(category, quote))
                                ELSE acc)

\* The outer loop: for item in parsed.get("matches", []).
RECURSIVE ParseItems(_, _)
ParseItemsFirstQuoteOnly(items, acc) ==
    IF items = <<>> THEN Returned(acc)
    ELSE LET item == Head(items)
         IN IF item.category.t \in {"null", "num"} THEN Raised("AttributeError", None)
            ELSE LET category == NormalizeCategory(item.category)
                 IN IF ~InTaxonomy(category) THEN ParseItems(Tail(items), acc)
                    ELSE LET r == ParseQuotes(category,
                                      IF item.quotes.t = "missing" \/ item.quotes.v = <<>>
                                      THEN <<>> ELSE <<Head(item.quotes.v)>>, acc)
                         IN IF r.error # None THEN r ELSE ParseItems(Tail(items), r.matches)

ParseItems(items, acc) ==
    IF items = <<>> THEN Returned(acc)
    ELSE LET item == Head(items)
         IN IF item.category.t \in {"null", "num"} THEN Raised("AttributeError", None)
            ELSE LET category == NormalizeCategory(item.category)
                 IN IF ~InTaxonomy(category) THEN ParseItems(Tail(items), acc)
                    ELSE LET r == ParseQuotes(category,
                                      IF item.quotes.t = "missing" THEN <<>> ELSE item.quotes.v,
                                      acc)
                         IN IF r.error # None THEN r ELSE ParseItems(Tail(items), r.matches)

\* json.loads(content) and the loops over what it decoded.
ParseResponse(content) ==
    IF content.t = "undecodable" THEN Raised("ValueError", content.raw)
    ELSE ParseItems(IF content.matches.t = "missing" THEN <<>> ELSE content.matches.v, <<>>)

\* The response texts the service may return.
CategoryInputs ==
    { JStr(<<"a">>), JStr(<<" ", "H", NL>>), JStr(<<"z">>), JStr(<<"a", "b">>),
      JStr(<<>>), JMissing, JNull }
QuoteListInputs ==
    { JList(<<>>), JMissing,
      JList(<<JStr(<<"x">>)>>),
      JList(<<JStr(<<" ", "y", " ">>), JStr(<<"x">>)>>),
      JList(<<JStr(<<" ">>), JNull, JStr(<<"y">>)>>),
      JList(<<JStr(<<"x">>), JStr(<<"x">>)>>),
      JList(<<JStr(<<"x">>), JNum>>) }
ItemInputs == {[category |-> c, quotes |-> q] : c \in CategoryInputs, q \in QuoteListInputs}
Undecodable(raw) == [t |-> "undecodable", raw |-> raw, matches |-> JMissing]
Decoded(ms) == [t |-> "json", raw |-> None, matches |-> ms]
ResponseInputs ==
    {Undecodable(raw) : raw \in {"not json", "{\"matches\": ["}}
    \cup {Decoded(JMissing)}
    \cup {Decoded(JList(l)) : l \in SeqsUpTo(ItemInputs, MaxEntries)}

ParseInit ==
    /\ parser \in {[state |-> "input", content |-> c, result |-> Returned(<<>>)] :
                      c \in ResponseInputs}
    /\ chunker = Idle
    /\ marker = Idle
    /\ PipeInit

CodeChunkParse ==
    /\ parser.state = "input"
    /\ parser' = [parser EXCEPT !.state = "done", !.result = ParseResponse(parser.content)]
    /\ UNCHANGED <<chunker, marker, pipeVars>>

SpecParse == ParseInit /\ [][CodeChunkParse]_vars

ParseDone == parser.state = "done"

\* The (entry, quote) pairs of a decoded response, in response order, each
\* with the entry's category trimmed and upper-cased and the quote trimmed.
ItemList(content) == IF content.matches.t = "missing" THEN <<>> ELSE content.matches.v
QuoteList(item) == IF item.quotes.t = "missing" THEN <<>> ELSE item.quotes.v
TextOf(j) == IF j.t = "str" THEN j.v ELSE <<>>
PairsOfItem(item) ==
    [j \in 1..Len(QuoteList(item)) |->
        QuoteMatch(Upper(Strip(TextOf(item.category))), Strip(TextOf(QuoteList(item)[j])))]
RECURSIVE PairsOf(_)
PairsOf(items) == IF items = <<>> THEN <<>> ELSE PairsOfItem(Head(items)) \o PairsOf(Tail(items))
IsCode(category) == category \in {<<"A">>, <<"B">>, <<"C">>, <<"D">>, <<"E">>, <<"F">>, <<"G">>, <<"H">>}
KeptPair(m) == IsCode(m.category) /\ m.quote # <<>>
ExpectedMatches(content) == SelectSeq(PairsOf(ItemList(content)), KeptPair)

\* Each category is a string or absent and each quote a string or null.
WellTyped(content) ==
    \A i \in 1..Len(ItemList(content)) :
        /\ ItemList(content)[i].category.t \in {"str", "missing"}
        /\ \A j \in 1..Len(QuoteList(ItemList(content)[i])) :
              QuoteList(ItemList(content)[i])[j].t \in {"str", "null"}

\* C7 (as stated): every decodable response object gives, without error,
\* one QuoteMatch per (entry, quote) pair whose normalised category is one
\* of A-H and whose trimmed quote is non-empty, in response order; text
\* that does not decode raises an error carrying the raw payload.
C7_EveryDecodableResponse ==
    ParseDone =>
        IF parser.content.t = "undecodable"
        THEN parser.result.error = "ValueError" /\ parser.result.payload = parser.content.raw
        ELSE parser.result.error = None
             /\ parser.result.matches = ExpectedMatches(parser.content)

\* C7 (amended): every decodable response object whose categories are
\* strings or absent and whose quotes are strings or null gives, without
\* error, one QuoteMatch per (entry, quote) pair whose normalised category
\* is one of A-H and whose trimmed quote is non-empty, in response order
\* and without deduplication; text that does not decode raises an error
\* carrying the raw payload.
C7_WellTypedResponse ==
    ParseDone =>
        IF parser.content.t = "undecodable"
        THEN parser.result.error = "ValueError" /\ parser.result.payload = parser.content.raw
        ELSE WellTyped(parser.content) =>
                /\ parser.result.error = None
                /\ parser.result.matches = ExpectedMatches(parser.content)

C7_Witness ==
    /\ ParseDone
    /\ parser.content.t = "json"
    /\ WellTyped(parser.content)
    /\ Len(ItemList(parser.content)) = 2
    /\ ItemList(parser.content)[1].category = JStr(<<"z">>)
    /\ ItemList(parser.content)[2].category = JStr(<<" ", "H", NL>>)
    /\ ItemList(parser.content)[2].quotes = JList(<<JStr(<<" ">>), JNull, JStr(<<"y">>)>>)
    /\ parser.result.matches = <<QuoteMatch(<<"H">>, <<"y">>)>>

\* ------------------------------------------- apply_shading, highlight_quote
Highlight(val) == [tag |-> "w:highlight", fill |-> val]
Shd(color_hex) == [tag |-> "w:shd", fill |-> color_hex]
Bold == [tag |-> "w:b", fill |-> None]
Run(text, rPr) == [text |-> text, rPr |-> rPr]

NotHighlight(child) == child.tag # "w:highlight"

\* Drop the w:highlight children of the run's rPr, then append a w:shd.
apply_shading(run, color_hex) ==
    [run EXCEPT !.rPr = Append(SelectSeq(@, NotHighlight), Shd(color_hex))]

\* paragraph.text: the texts of the paragraph's runs, concatenated.
RECURSIVE ParaText(_)
ParaText(paragraph) ==
    IF paragraph = <<>> THEN <<>> ELSE Head(paragraph).text \o ParaText(Tail(paragraph))

\* needle in text
Contains(text, needle) ==
    \E i \in 0..(Len(text) - Len(needle)) : SubSeq(text, i + 1, i + Len(needle)) = needle

\* The test of the loop body: the paragraph has text and holds the quote.
ParagraphHit(paragraph, normalized_lower) ==
    LET text == Strip(ParaText(paragraph))
    IN text # <<>> /\ Contains(Lower(text), normalized_lower)

\* [document, applied, marked]: the document after the call, the value
\* returned, and the indices of the paragraphs whose runs were shaded.
highlight_quote_case_sensitive(doc, quote, color_hex) ==
    LET normalized == Strip(quote)
        hit == {i \in 1..Len(doc) :
                   Strip(ParaText(doc[i])) # <<>> /\ Contains(Strip(ParaText(doc[i])), normalized)}
    IN IF normalized = <<>>
       THEN [document |-> doc, applied |-> FALSE, marked |-> {}]
       ELSE [document |-> [i \in 1..Len(doc) |->
                              IF i \in hit
                              THEN [r \in 1..Len(doc[i]) |-> apply_shading(doc[i][r], color_hex)]
                              ELSE doc[i]],
             applied |-> hit # {},
             marked |-> hit]

highlight_quote(doc, quote, color_hex) ==
    LET normalized == Strip(quote)
        hit == {i \in 1..Len(doc) : ParagraphHit(doc[i], Lower(normalized))}
    IN IF normalized = <<>>
       THEN [document |-> doc, applied |-> FALSE, marked |-> {}]
       ELSE [document |-> [i \in 1..Len(doc) |->
                              IF i \in hit
                              THEN [r \in 1..Len(doc[i]) |-> apply_shading(doc[i][r], color_hex)]
                              ELSE doc[i]],
             applied |-> hit # {},
             marked |-> hit]

\* The paragraphs of the documents highlighted, and the quotes and colors.
MarkerParagraphs ==
    { <<Run(<<"a", " ", "B">>, <<>>)>>,
      <<Run(<<" ", "a">>, <<Bold>>), Run(<<"b", " ">>, <<Highlight("yellow"), Bold>>)>>,
      <<Run(<<"b">>, <<Highlight("yellow")>>)>>,
      <<Run(<<" ">>, <<>>)>>,
      <<>> }
MarkerDocuments == SeqsUpTo(MarkerParagraphs, MaxDocParas)
MarkerQuotes == { <<>>, <<" ">>, <<"b">>, <<" ", "A", " ", "b", NL>>, <<"x">> }
MarkerColors == {CATEGORY_DETAILS[1].color, CATEGORY_DETAILS[2].color}

MarkInit ==
    /\ marker \in {[state |-> "loaded", document |-> d, prior |-> d, quote |-> <<>>,
                    color |-> None, applied |-> FALSE,
                    shaded |-> [i \in 1..Len(d) |-> None], n |-> 0] :
                      d \in MarkerDocuments}
    /\ chunker = Idle
    /\ parser = Idle
    /\ PipeInit

\* One call highlight_quote(document, quote, color).  marker.prior is the
\* document as it was before the call; marker.shaded[i] is the color of the
\* latest apply_shading on the runs of paragraph i, None before the first.
HighlightQuote ==
    /\ marker.state \in {"loaded", "called"}
    /\ marker.n < MaxApplications
    /\ \E quote \in MarkerQuotes, color \in MarkerColors :
          LET r == highlight_quote(marker.document, quote, color)
          IN marker' = [state |-> "called", document |-> r.document,
                        prior |-> marker.document, quote |-> quote, color |-> color,
                        applied |-> r.applied,
                        shaded |-> [i \in 1..Len(marker.document) |->
                                       IF i \in r.marked THEN color ELSE marker.shaded[i]],
                        n |-> marker.n + 1]
    /\ UNCHANGED <<chunker, parser, pipeVars>>

SpecMark == MarkInit /\ [][HighlightQuote]_vars

IsMarking(child) == child.tag \in {"w:highlight", "w:shd"}
Markings(run) == SelectSeq(run.rPr, IsMarking)

\* C1: a run that apply_shading was applied to, once or several times,
\* carries exactly one highlight/shading marking: a w:shd with the color of
\* the latest application.
C1_OneShadingValue ==
    marker.state = "called" =>
        \A i \in 1..Len(marker.document) :
            marker.shaded[i] # None =>
                \A r \in 1..Len(marker.document[i]) :
                    Markings(marker.document[i][r]) = <<Shd(marker.shaded[i])>>

\* The claim's test: the trimmed quote is non-empty and occurs in the
\* paragraph's non-empty trimmed text, letter case ignored.
OccursIgnoringCase(text, q) ==
    \E off \in 0..(Len(text) - Len(q)) :
        \A k \in 1..Len(q) : LowerChar(text[off + k]) = LowerChar(q[k])
QuoteInParagraph(paragraph, quote) ==
    /\ Strip(quote) # <<>>
    /\ Strip(ParaText(paragraph)) # <<>>
    /\ OccursIgnoringCase(Strip(ParaText(paragraph)), Strip(quote))
CarriesColor(run, color) == run.rPr # <<>> /\ run.rPr[Len(run.rPr)] = Shd(color)

\* C6: highlight_quote gives the color to every run of every paragraph whose
\* non-empty trimmed text holds the trimmed quote, letter case ignored,
\* leaves every other paragraph as it was, keeps every run's text, and
\* returns TRUE exactly when some paragraph was marked.
C6_HighlightQuote ==
    marker.state = "called" =>
        /\ Len(marker.document) = Len(marker.prior)
        /\ \A i \in 1..Len(marker.prior) :
              IF QuoteInParagraph(marker.prior[i], marker.quote)
              THEN /\ Len(marker.document[i]) = Len(marker.prior[i])
                   /\ \A r \in 1..Len(marker.prior[i]) :
                         /\ marker.document[i][r].text = marker.prior[i][r].text
                         /\ CarriesColor(marker.document[i][r], marker.color)
              ELSE marker.document[i] = marker.prior[i]
        /\ marker.applied =
              (\E i \in 1..Len(marker.prior) : QuoteInParagraph(marker.prior[i], marker.quote))

C6_Witness ==
    /\ marker.state = "called"
    /\ marker.quote = <<" ", "A", " ", "b", NL>>
    /\ marker.applied
    /\ Len(marker.prior) = 2
    /\ QuoteInParagraph(marker.prior[1], marker.quote)
    /\ ~QuoteInParagraph(marker.prior[2], marker.quote)
    /\ marker.prior[2] # <<>>
    /\ marker.document[2] = marker.prior[2]
    /\ marker.document[1] # marker.prior[1]

\* ------------------------------------------------------- _append_legend
\* The legend's run texts are kept whole, one string each; the en dash of
\* the entry label is written "-".
LegendTitle == <<Run(<<"Coding legend">>, <<Bold>>)>>
LegendEntry(meta) ==
    <<Run(<<meta.code, ". ", meta.title, " - ">>, <<>>),
      apply_shading(Run(<<"example">>, <<>>), meta.color)>>

_append_legend_over_last(doc) ==
    (IF doc = <<>> THEN <<>> ELSE SubSeq(doc, 1, Len(doc) - 1))
        \o <<LegendTitle>>
        \o [k \in 1..Len(CATEGORY_DETAILS) |-> LegendEntry(CATEGORY_DETAILS[k])]

_append_legend(doc) ==
    doc \o <<LegendTitle>>
        \o [k \in 1..Len(CATEGORY_DETAILS) |-> LegendEntry(CATEGORY_DETAILS[k])]

\* ------------------------------------- _start_processing, _process_document
DefaultMaxChars == 3500

\* CATEGORY_DETAILS[match.category]["color"]
CategoryColor(category) ==
    CATEGORY_DETAILS[CHOOSE k \in 1..Len(CATEGORY_DETAILS) :
                        <<CATEGORY_DETAILS[k].code>> = category].color

\* A widget call made by a thread: self.log.insert, messagebox.show*,
\* self.process_button.config.
WidgetCall(thread, widget) == [thread |-> thread, widget |-> widget]
_log(ops, thread) == ops \cup {WidgetCall(thread, "log")}
messagebox(ops, thread) == ops \cup {WidgetCall(thread, "messagebox")}

\* The .docx files the user can choose as input.
LongText == [i \in 1..LongLen |-> IF i = LongLen THEN "b" ELSE "a"]
Files ==
    << [readable |-> TRUE, document |-> <<>>],
       [readable |-> TRUE, document |-> << <<Run(<<" ">>, <<>>)>>, <<>> >>],
       [readable |-> TRUE,
        document |-> << <<Run(<<"a", " ">>, <<Bold>>), Run(<<"B">>, <<>>)>>,
                        <<Run(<<" ">>, <<>>)>>,
                        <<Run(<<"b">>, <<Highlight("yellow")>>)>>,
                        <<Run(<<"a">>, <<>>)>> >>],
       [readable |-> TRUE,
        document |-> << <<Run(LongText, <<>>)>>, <<Run(LongText, <<>>)>> >>],
       [readable |-> FALSE, document |-> <<>>] >>

\* The response texts the service returns in the pipeline.
PipelineResponses ==
    { Undecodable("not json"),
      Decoded(JList(<<>>)),
      Decoded(JList(<<[category |-> JStr(<<"a">>), quotes |-> JList(<<JStr(<<"b">>)>>)]>>)),
      Decoded(JList(<<[category |-> JStr(<<" ", "H", NL>>),
                       quotes |-> JList(<<JStr(<<" ", "A", " ", "b">>), JStr(<<"x">>)>>)]>>)),
      Decoded(JList(<<[category |-> JNull, quotes |-> JList(<<JStr(<<"b">>)>>)]>>)) }

\* [p.text.strip() for p in document.paragraphs if p.text.strip()]
RECURSIVE ExtractParagraphs(_)
ExtractParagraphs(doc) ==
    IF doc = <<>> THEN <<>>
    ELSE LET text == Strip(ParaText(Head(doc)))
         IN (IF text # <<>> THEN <<text>> ELSE <<>>) \o ExtractParagraphs(Tail(doc))

Init ==
    /\ chunker = Idle
    /\ parser = Idle
    /\ marker = Idle
    /\ PipeInit

otherSpecs == <<chunker, parser, marker>>

\* The file dialog returns a file name, or nothing when cancelled (f = 0).
_select_input ==
    /\ \E f \in 0..Len(Files) : input_path' = IF f # 0 THEN f ELSE input_path
    /\ UNCHANGED <<otherSpecs, output_path, button, pc, document, source, chunks, ci,
                   matches, mi, applied, before, legendAppends, inflight, submitted,
                   failedCall, destWrites, destination, widgetOps, error>>

_select_output ==
    /\ \E f \in 0..1 : output_path' = IF f # 0 THEN f ELSE output_path
    /\ UNCHANGED <<otherSpecs, input_path, button, pc, document, source, chunks, ci,
                   matches, mi, applied, before, legendAppends, inflight, submitted,
                   failedCall, destWrites, destination, widgetOps, error>>

\* The button's command, on the UI thread; a disabled button does not fire.
\* Starting the thread begins a run: the worker's locals are fresh.
_start_processing ==
    /\ button = "normal"
    /\ \/ /\ input_path = 0
          /\ widgetOps' = messagebox(widgetOps, "ui")
          /\ UNCHANGED <<button, pc, document, source, chunks, ci, matches, mi, applied,
                         before, legendAppends, inflight, submitted, failedCall,
                         destWrites, destination, error>>
       \/ /\ input_path # 0
          /\ output_path = 0
          /\ widgetOps' = messagebox(widgetOps, "ui")
          /\ UNCHANGED <<button, pc, document, source, chunks, ci, matches, mi, applied,
                         before, legendAppends, inflight, submitted, failedCall,
                         destWrites, destination, error>>
       \/ /\ input_path # 0
          /\ output_path # 0
          /\ button' = "disabled"
          /\ widgetOps' = widgetOps \cup {WidgetCall("ui", "process_button")}
          /\ pc' = "start"
          /\ document' = <<>> /\ source' = <<>> /\ chunks' = <<>> /\ ci' = 0
          /\ matches' = <<>> /\ mi' = 0 /\ applied' = 0 /\ before' = <<>>
          /\ legendAppends' = 0 /\ inflight' = 0 /\ submitted' = <<>>
          /\ failedCall' = FALSE /\ destWrites' = 0 /\ error' = None
          /\ destination' = [written |-> FALSE, document |-> <<>>]
    /\ UNCHANGED <<otherSpecs, input_path, output_path>>

\* Lines 190-198: log, load, extract the paragraphs, chunk them.
LoadDocument ==
    /\ pc = "start"
    /\ widgetOps' = _log(widgetOps, "worker")
    /\ \/ /\ ~Files[input_path].readable
          /\ error' = "Document: cannot open the file"
          /\ pc' = "except"
          /\ UNCHANGED <<document, source, chunks, ci>>
       \/ /\ Files[input_path].readable
          /\ ExtractParagraphs(Files[input_path].document) = <<>>
          /\ document' = Files[input_path].document
          /\ source' = Files[input_path].document
          /\ error' = "ValueError: No text found in the document."
          /\ pc' = "except"
          /\ UNCHANGED <<chunks, ci>>
       \/ /\ Files[input_path].readable
          /\ ExtractParagraphs(Files[input_path].document) # <<>>
          /\ document' = Files[input_path].document
          /\ source' = Files[input_path].document
          /\ chunks' = chunk_text(ExtractParagraphs(Files[input_path].document), DefaultMaxChars)
          /\ ci' = 1
          /\ pc' = "classify"
          /\ UNCHANGED error
    /\ UNCHANGED <<otherSpecs, input_path, output_path, button, matches, mi, applied,
                   before, legendAppends, inflight, submitted, failedCall, destWrites,
                   destination>>

\* _code_chunk up to the call: log, then submit chunks[ci] to the service.
SubmitChunk ==
    /\ pc = "classify"
    /\ ci <= Len(chunks)
    /\ widgetOps' = _log(widgetOps, "worker")
    /\ inflight' = inflight + 1
    /\ submitted' = Append(submitted, ci)
    /\ pc' = "awaiting"
    /\ UNCHANGED <<otherSpecs, input_path, output_path, button, document, source, chunks,
                   ci, matches, mi, applied, before, legendAppends, failedCall,
                   destWrites, destination, error>>

\* The call raises OpenAIError, translated to RuntimeError.
CallFailsRetries ==
    /\ pc = "awaiting"
    /\ inflight' = inflight - 1
    /\ failedCall' = TRUE
    /\ pc' = "classify"
    /\ UNCHANGED <<otherSpecs, input_path, output_path, button, document, source, chunks,
                   ci, matches, mi, applied, before, legendAppends, submitted, destWrites,
                   destination, widgetOps, error>>

CallFails ==
    /\ pc = "awaiting"
    /\ inflight' = inflight - 1
    /\ failedCall' = TRUE
    /\ error' = "RuntimeError: Azure OpenAI call failed."
    /\ pc' = "except"
    /\ UNCHANGED <<otherSpecs, input_path, output_path, button, document, source, chunks,
                   ci, matches, mi, applied, before, legendAppends, submitted, destWrites,
                   destination, widgetOps>>

\* The call returns: parse the content; extend matches and go to the next
\* chunk, or raise.
CallReturnsSkipsBadResponse ==
    /\ pc = "awaiting"
    /\ inflight' = inflight - 1
    /\ \E content \in PipelineResponses :
          LET r == ParseResponse(content)
          IN /\ failedCall' = (failedCall \/ r.error # None)
             /\ matches' = matches \o r.matches
             /\ ci' = ci + 1
             /\ pc' = "classify"
             /\ widgetOps' = _log(widgetOps, "worker")
             /\ UNCHANGED error
    /\ UNCHANGED <<otherSpecs, input_path, output_path, button, document, source, chunks,
                   mi, applied, before, legendAppends, submitted, destWrites, destination>>

CallReturns ==
    /\ pc = "awaiting"
    /\ inflight' = inflight - 1
    /\ \E content \in PipelineResponses :
          LET r == ParseResponse(content)
          IN \/ /\ r.error # None
                /\ failedCall' = TRUE
                /\ error' = r.error
                /\ pc' = "except"
                /\ UNCHANGED <<matches, ci, widgetOps>>
             \/ /\ r.error = None
                /\ widgetOps' = _log(widgetOps, "worker")
                /\ matches' = matches \o r.matches
                /\ ci' = ci + 1
                /\ pc' = "classify"
                /\ UNCHANGED <<failedCall, error>>
    /\ UNCHANGED <<otherSpecs, input_path, output_path, button, document, source, chunks,
                   mi, applied, before, legendAppends, submitted, destWrites, destination>>

\* Lines 201-202: every chunk is coded and no match came back.
NoMatchesSkipsLegend ==
    /\ pc = "classify"
    /\ ci > Len(chunks)
    /\ matches = <<>>
    /\ widgetOps' = _log(widgetOps, "worker")
    /\ pc' = "save"
    /\ UNCHANGED <<otherSpecs, input_path, output_path, button, document, source, chunks,
                   ci, matches, mi, applied, before, legendAppends, inflight, submitted,
                   failedCall, destWrites, destination, error>>

NoMatches ==
    /\ pc = "classify"
    /\ ci > Len(chunks)
    /\ matches = <<>>
    /\ widgetOps' = _log(widgetOps, "worker")
    /\ pc' = "legend"
    /\ UNCHANGED <<otherSpecs, input_path, output_path, button, document, source, chunks,
                   ci, matches, mi, applied, before, legendAppends, inflight, submitted,
                   failedCall, destWrites, destination, error>>

\* Line 204: enter _apply_highlights.
BeginHighlights ==
    /\ pc = "classify"
    /\ ci > Len(chunks)
    /\ matches # <<>>
    /\ mi' = 1
    /\ applied' = 0
    /\ pc' = "highlight"
    /\ UNCHANGED <<otherSpecs, input_path, output_path, button, document, source, chunks,
                   ci, matches, before, legendAppends, inflight, submitted, failedCall,
                   destWrites, destination, widgetOps, error>>

\* One iteration of the loop of _apply_highlights.
HighlightStep ==
    /\ pc = "highlight"
    /\ mi <= Len(matches)
    /\ LET r == highlight_quote(document, matches[mi].quote, CategoryColor(matches[mi].category))
       IN /\ document' = r.document
          /\ applied' = IF r.applied THEN applied + 1 ELSE applied
    /\ mi' = mi + 1
    /\ UNCHANGED <<otherSpecs, input_path, output_path, button, pc, source, chunks, ci,
                   matches, before, legendAppends, inflight, submitted, failedCall,
                   destWrites, destination, widgetOps, error>>

\* _apply_highlights returns; line 205 logs the count.
FinishHighlights ==
    /\ pc = "highlight"
    /\ mi > Len(matches)
    /\ widgetOps' = _log(widgetOps, "worker")
    /\ pc' = "legend"
    /\ UNCHANGED <<otherSpecs, input_path, output_path, button, document, source, chunks,
                   ci, matches, mi, applied, before, legendAppends, inflight, submitted,
                   failedCall, destWrites, destination, error>>

\* Line 207.
AppendLegend ==
    /\ pc = "legend"
    /\ before' = document
    /\ document' = _append_legend(document)
    /\ legendAppends' = legendAppends + 1
    /\ pc' = "save"
    /\ UNCHANGED <<otherSpecs, input_path, output_path, button, source, chunks, ci,
                   matches, mi, applied, inflight, submitted, failedCall, destWrites,
                   destination, widgetOps, error>>

\* Lines 209-211: save, log, report completion.
Save ==
    /\ pc = "save"
    /\ destination' = [written |-> TRUE, document |-> document]
    /\ destWrites' = destWrites + 1
    /\ widgetOps' = messagebox(_log(widgetOps, "worker"), "worker")
    /\ pc' = "finally"
    /\ UNCHANGED <<otherSpecs, input_path, output_path, button, document, source, chunks,
                   ci, matches, mi, applied, before, legendAppends, inflight, submitted,
                   failedCall, error>>

\* Lines 212-214: the except clause.
Except ==
    /\ pc = "except"
    /\ widgetOps' = _log(messagebox(widgetOps, "worker"), "worker")
    /\ pc' = "finally"
    /\ UNCHANGED <<otherSpecs, input_path, output_path, button, document, source, chunks,
                   ci, matches, mi, applied, before, legendAppends, inflight, submitted,
                   failedCall, destWrites, destination, error>>

\* Lines 215-216: the finally clause; the thread ends.
Finally ==
    /\ pc = "finally"
    /\ button' = "normal"
    /\ widgetOps' = widgetOps \cup {WidgetCall("worker", "process_button")}
    /\ pc' = "idle"
    /\ UNCHANGED <<otherSpecs, input_path, output_path, document, source, chunks, ci,
                   matches, mi, applied, before, legendAppends, inflight, submitted,
                   failedCall, destWrites, destination, error>>

Next ==
    \/ _select_input
    \/ _select_output
    \/ _start_processing
    \/ LoadDocument
    \/ SubmitChunk
    \/ CallFails
    \/ CallReturns
    \/ NoMatches
    \/ BeginHighlights
    \/ HighlightStep
    \/ FinishHighlights
    \/ AppendLegend
    \/ Save
    \/ Except
    \/ Finally

Spec == Init /\ [][Next]_vars

\* C4: through highlighting and the legend append the paragraphs loaded keep
\* their number, order, runs and run texts; the legend append adds
\* paragraphs after the last one and leaves every paragraph that was there,
\* text and styling, as it was.
C4_ParagraphsPreserved ==
    /\ Len(document) >= Len(source)
    /\ \A i \in 1..Len(source) :
          /\ Len(document[i]) = Len(source[i])
          /\ \A r \in 1..Len(source[i]) : document[i][r].text = source[i][r].text
    /\ legendAppends = 0 => Len(document) = Len(source)
    /\ legendAppends > 0 =>
          /\ Len(before) = Len(source)
          /\ Len(document) > Len(before)
          /\ SubSeq(document, 1, Len(before)) = before

C4_Witness ==
    /\ pc = "finally"
    /\ legendAppends = 1
    /\ Len(matches) = 2
    /\ applied = 1
    /\ before # source
    /\ Len(source) = 4

\* C5: a run writes the destination file at most once, and only after the
\* document was loaded with a non-empty paragraph, every chunk was coded
\* without error, highlighting finished and the legend was appended; a run
\* that fails never writes it.
C5_WriteOnlyAtEnd ==
    /\ destWrites <= 1
    /\ destination.written <=> destWrites = 1
    /\ destWrites = 1 =>
          /\ pc \in {"finally", "idle"}
          /\ error = None
          /\ ~failedCall
          /\ ExtractParagraphs(source) # <<>>
          /\ chunks # <<>>
          /\ submitted = [i \in 1..Len(chunks) |-> i]
          /\ ci = Len(chunks) + 1
          /\ inflight = 0
          /\ matches = <<>> \/ mi = Len(matches) + 1
          /\ legendAppends = 1
          /\ destination.document = document
    /\ (error # None \/ failedCall) => destWrites = 0

C5_Witness ==
    /\ pc = "idle"
    /\ destWrites = 1
    /\ Len(submitted) = 2
    /\ applied = 2

\* The 9 paragraphs of the legend: the title, then one entry per category
\* in the order A to H with a sample run carrying the category's color.
LegendCodes == <<"A", "B", "C", "D", "E", "F", "G", "H">>
IsLegendBlock(b) ==
    /\ Len(b) = 9
    /\ Len(b[1]) = 1
    /\ b[1][1].text = <<"Coding legend">>
    /\ b[1][1].rPr = <<Bold>>
    /\ \A k \in 1..8 :
          /\ Len(b[k + 1]) = 2
          /\ b[k + 1][1].text[1] = LegendCodes[k]
          /\ b[k + 1][1].text[3] = CATEGORY_DETAILS[k].title
          /\ b[k + 1][2].text = <<"example">>
          /\ Markings(b[k + 1][2]) = <<Shd(CATEGORY_DETAILS[k].color)>>

\* C8: a run that reaches the save step has appended the legend exactly
\* once; the document saved is the document as highlighted followed by the
\* 9 legend paragraphs, and with no match it is the document as loaded
\* followed by them.
C8_LegendOnce ==
    (pc = "save" \/ destWrites > 0) =>
        LET d == IF destWrites > 0 THEN destination.document ELSE document
        IN /\ legendAppends = 1
           /\ Len(d) = Len(source) + 9
           /\ SubSeq(d, 1, Len(source)) = before
           /\ IsLegendBlock(SubSeq(d, Len(source) + 1, Len(d)))
           /\ matches = <<>> => SubSeq(d, 1, Len(source)) = source

C8_Witness ==
    /\ pc = "finally"
    /\ destWrites = 1
    /\ matches = <<>>
    /\ Len(source) = 4
    /\ Len(destination.document) = 13

\* C9: at most one call is in flight; the chunks are submitted in order,
\* each at most once, chunk i + 1 only after the call for chunk i returned
\* and parsed; no call follows a call that failed or did not parse; and a
\* document without a non-empty paragraph leads to no call.
C9_SequentialCalls ==
    /\ inflight \in {0, 1}
    /\ inflight = 1 <=> pc = "awaiting"
    /\ submitted = [i \in 1..Len(submitted) |-> i]
    /\ Len(submitted) <= Len(chunks)
    /\ pc = "awaiting" => ci = Len(submitted)
    /\ (pc = "classify" /\ ~failedCall) => ci = Len(submitted) + 1
    /\ failedCall =>
          /\ pc \in {"except", "finally", "idle"}
          /\ inflight = 0
          /\ ci = Len(submitted)
    /\ error = "ValueError: No text found in the document." => submitted = <<>>

C9_Witness ==
    /\ pc = "awaiting"
    /\ submitted = <<1, 2>>
    /\ Len(chunks) = 2
    /\ Len(matches) = 2

\* C10: every write to a widget (the log pane, a message box, the button)
\* is executed by the UI thread, never by the worker thread.
C10_WidgetCallsOnUiThread ==
    \A op \in widgetOps : op.thread = "ui"

=============================================================================
